---- MODULE Spec2Model ----
(***************************************************************************)
(* Model of the StudentRegistry record store (lib/student-slice.ts): the   *)
(* Redux slice holding allstudents, filteredstudents and currentStudent,   *)
(* with its six reducers, driven by the search box of StudentTable.        *)
(* Spec is the store on its own, any reducer at any time; SpecStudents is  *)
(* the same with payloads that carry an _id; SpecUI is the store driven by *)
(* StudentTable and its FormModel children, with their handlers and        *)
(* effects, and by the edit form of the details page.                      *)
(*                                                                         *)
(* Strings are sequences of one-character strings so that toLowerCase and  *)
(* includes are computed, not assumed.  A student object is a function     *)
(* from the names of the properties it has to their values; a property the *)
(* object does not have is outside its DOMAIN.                             *)
(***************************************************************************)
EXTENDS Integers, Sequences, FiniteSets, TLC

(* ------------------------------ bounds -------------------------------- *)

\* number of distinct ids in a run: the seed's plus those uuidv4 hands out
\* (so allstudents never grows beyond NumIds records)
NumIds == 2

Ids == 1..NumIds

(* ------------------------------ strings ------------------------------- *)

\* field values the model draws from: "Ab" and "C"
Names == { <<"A", "b">>, <<"C">> }

\* search terms the model draws from: "", "B" and "c"
Terms == { <<>>, <<"B">>, <<"c">> }

\* String.prototype.toLowerCase on one character
LowerChar(c) ==
    CASE c = "A" -> "a"
      [] c = "B" -> "b"
      [] c = "C" -> "c"
      [] OTHER   -> c

\* String.prototype.toLowerCase
toLowerCase(s) == [i \in 1..Len(s) |-> LowerChar(s[i])]

\* String.prototype.includes: t occurs in s as a contiguous substring
includes(s, t) ==
    \E i \in 0..(Len(s) - Len(t)) : SubSeq(s, i + 1, i + Len(t)) = t

(* --------------------------- student objects -------------------------- *)

\* the three properties searchStudents looks at, in the order it reads them
SearchFields == <<"firstName", "lastName", "collegeName">>

SearchFieldSet == {SearchFields[i] : i \in 1..Len(SearchFields)}

\* payloads of addNewStudent / saveEditedStudent the model draws from (every
\* property of Students is optional): two complete ones and one with only a
\* firstName
Payloads ==
    { [firstName |-> <<"A", "b">>, lastName |-> <<"C">>, collegeName |-> <<"C">>],
      [firstName |-> <<"C">>, lastName |-> <<"C">>, collegeName |-> <<"C">>],
      [firstName |-> <<"C">>] }

\* the value of currentStudent when nothing is selected
null == [null |-> TRUE]

\* object spread { ...a, ...b }: b's properties win
Spread(a, b) ==
    [f \in (DOMAIN a) \cup (DOMAIN b) |-> IF f \in DOMAIN b THEN b[f] ELSE a[f]]

\* the seed collection: complete records with distinct ids
dummyData ==
    << [_id |-> 1, firstName |-> <<"A", "b">>, lastName |-> <<"C">>,
        collegeName |-> <<"C">>] >>

\* the null of StudentTable's editData and deleteStudentId (no id is 0)
NoId == 0

VARIABLES
    allstudents,       \* StudentState.allstudents
    filteredstudents,  \* StudentState.filteredstudents
    currentStudent,    \* StudentState.currentStudent
    searchData,        \* StudentTable.searchData, the term handed to searchStudents
    action,            \* type of the action last dispatched to the slice
    error,             \* what that dispatch raised: "none" or "TypeError"
    issued,            \* ids already in use (seed) or returned by uuidv4
    editData,          \* StudentTable.editData: id under edit, or NoId
    editFormOpen,      \* open of the FormModel rendered for editData
    addFormOpen,       \* open of the FormModel rendered without id
    openDeleteModal,   \* StudentTable.openDeleteModal
    deleteStudentId,   \* StudentTable.deleteStudentId, or NoId
    detail,            \* detail prop of the FormModel last mounted with an id
    pendingEffects     \* effects React has yet to run after the last render

\* the component state, untouched by the reducers
uiVars == <<editData, editFormOpen, addFormOpen, openDeleteModal,
            deleteStudentId, detail, pendingEffects>>

vars == <<allstudents, filteredstudents, currentStudent, searchData, action,
          error, issued, editData, editFormOpen, addFormOpen, openDeleteModal,
          deleteStudentId, detail, pendingEffects>>

\* ids of a list of students, as a set
IdsOf(students) == {students[i]._id : i \in 1..Len(students)}

(* ------------------------------ reducers ------------------------------ *)

\* ['firstName','lastName','collegeName'].some(...) on one student, reading
\* the fields in order from the i-th: "true" at the first field that
\* contains the term, "throw" when a field read before that is undefined
\* (undefined.toLowerCase() is a TypeError), "false" when none contains it
RECURSIVE someField(_, _, _)
someField(student, searchTerm, i) ==
    IF i > Len(SearchFields) THEN "false"
    ELSE IF SearchFields[i] \notin DOMAIN student THEN "throw"
    ELSE IF includes(toLowerCase(student[SearchFields[i]]), searchTerm)
         THEN "true"
    ELSE someField(student, searchTerm, i + 1)

\* does the filter callback of searchStudents throw on some student
filterThrows(students, searchTerm) ==
    \E i \in 1..Len(students) : someField(students[i], searchTerm, 1) = "throw"

\* state.allstudents.filter(...) of searchStudents when nothing throws
filterStudents(students, searchTerm) ==
    LET keep(student) == someField(student, searchTerm, 1) = "true"
    IN  SelectSeq(students, keep)

\* searchStudents keeping one list: the filter result replaces allstudents too
searchStudents_narrowsAll(term) ==
    LET searchTerm == toLowerCase(term)
    IN  /\ searchData' = term
        /\ action' = "searchStudents"
        /\ IF filterThrows(allstudents, searchTerm)
           THEN /\ error' = "TypeError"
                /\ UNCHANGED <<allstudents, filteredstudents>>
           ELSE /\ error' = "none"
                /\ filteredstudents' = filterStudents(allstudents, searchTerm)
                /\ allstudents' = filterStudents(allstudents, searchTerm)
        /\ UNCHANGED <<currentStudent, issued>>

\* searchStudents reducer; a throwing reducer leaves the state as it was
searchStudents(term) ==
    LET searchTerm == toLowerCase(term)
    IN  /\ searchData' = term
        /\ action' = "searchStudents"
        /\ IF filterThrows(allstudents, searchTerm)
           THEN /\ error' = "TypeError"
                /\ UNCHANGED filteredstudents
           ELSE /\ error' = "none"
                /\ filteredstudents' = filterStudents(allstudents, searchTerm)
        /\ UNCHANGED <<allstudents, currentStudent, issued>>

\* Array.prototype.find by _id, ?? null
findStudent(students, studentId) ==
    IF \E i \in 1..Len(students) : students[i]._id = studentId
    THEN students[CHOOSE i \in 1..Len(students) :
                     /\ students[i]._id = studentId
                     /\ \A j \in 1..(i - 1) : students[j]._id # studentId]
    ELSE null

\* selectedStudent looking the id up in the filtered view instead of allstudents
selectedStudent_fromFiltered(studentId) ==
    /\ currentStudent' = findStudent(filteredstudents, studentId)
    /\ action' = "selectedStudent"
    /\ error' = "none"
    /\ UNCHANGED <<allstudents, filteredstudents, searchData, issued>>

\* selectedStudent reducer
selectedStudent(studentId) ==
    /\ currentStudent' = findStudent(allstudents, studentId)
    /\ action' = "selectedStudent"
    /\ error' = "none"
    /\ UNCHANGED <<allstudents, filteredstudents, searchData, issued>>

\* clearSelectedStudent reducer
clearSelectedStudent ==
    /\ currentStudent' = null
    /\ action' = "clearSelectedStudent"
    /\ error' = "none"
    /\ UNCHANGED <<allstudents, filteredstudents, searchData, issued>>

\* the object addNewStudent builds
newStudentOf(studentUuid, payload) == Spread([_id |-> studentUuid], payload)

\* addNewStudent taking the id from a counter (the length of the list plus
\* one) instead of uuidv4
addNewStudent_counterId(payload) ==
    /\ LET studentUuid == Len(allstudents) + 1
           newStudent == newStudentOf(studentUuid, payload)
       IN  /\ allstudents' = Append(allstudents, newStudent)
           /\ filteredstudents' = Append(filteredstudents, newStudent)
           /\ issued' = issued \cup {studentUuid}
    /\ action' = "addNewStudent"
    /\ error' = "none"
    /\ UNCHANGED <<currentStudent, searchData>>

\* addNewStudent putting the new record at the front of the filtered view
addNewStudent_unshift(payload) ==
    /\ \E studentUuid \in Ids \ issued :
          LET newStudent == newStudentOf(studentUuid, payload)
          IN  /\ allstudents' = Append(allstudents, newStudent)
              /\ filteredstudents' = <<newStudent>> \o filteredstudents
              /\ issued' = issued \cup {studentUuid}
    /\ action' = "addNewStudent"
    /\ error' = "none"
    /\ UNCHANGED <<currentStudent, searchData>>

\* addNewStudent putting the new record at the front of both lists
addNewStudent_prepend(payload) ==
    /\ \E studentUuid \in Ids \ issued :
          LET newStudent == newStudentOf(studentUuid, payload)
          IN  /\ allstudents' = <<newStudent>> \o allstudents
              /\ filteredstudents' = <<newStudent>> \o filteredstudents
              /\ issued' = issued \cup {studentUuid}
    /\ action' = "addNewStudent"
    /\ error' = "none"
    /\ UNCHANGED <<currentStudent, searchData>>

\* addNewStudent reducer; uuidv4 returns an id it has never returned
addNewStudent(payload) ==
    /\ \E studentUuid \in Ids \ issued :
          LET newStudent == newStudentOf(studentUuid, payload)
          IN  /\ allstudents' = Append(allstudents, newStudent)
              /\ filteredstudents' = Append(filteredstudents, newStudent)
              /\ issued' = issued \cup {studentUuid}
    /\ action' = "addNewStudent"
    /\ error' = "none"
    /\ UNCHANGED <<currentStudent, searchData>>

\* updateStudentList merging the payload into the previous version
updateStudentList_merge(students, id, updatedStudent) ==
    [i \in 1..Len(students) |->
        IF students[i]._id = id
        THEN Spread(students[i], updatedStudent)
        ELSE students[i]]

\* updateStudentList inserting the record when no student has the id
updateStudentList_upsert(students, id, updatedStudent) ==
    IF \E i \in 1..Len(students) : students[i]._id = id
    THEN [i \in 1..Len(students) |->
            IF students[i]._id = id
            THEN Spread([_id |-> id], updatedStudent)
            ELSE students[i]]
    ELSE Append(students, Spread([_id |-> id], updatedStudent))

\* updateStudentList taking the old version out and pushing the new one
updateStudentList_moveToEnd(students, id, updatedStudent) ==
    IF \E i \in 1..Len(students) : students[i]._id = id
    THEN LET keep(student) == student._id # id
         IN  Append(SelectSeq(students, keep),
                    Spread([_id |-> id], updatedStudent))
    ELSE students

\* updateStudentList helper
updateStudentList(students, id, updatedStudent) ==
    [i \in 1..Len(students) |->
        IF students[i]._id = id
        THEN Spread([_id |-> id], updatedStudent)
        ELSE students[i]]

\* saveEditedStudent updating allstudents only
saveEditedStudent_allOnly(id, student) ==
    /\ allstudents' = updateStudentList(allstudents, id, student)
    /\ action' = "saveEditedStudent"
    /\ error' = "none"
    /\ UNCHANGED <<filteredstudents, currentStudent, searchData, issued>>

\* saveEditedStudent reducer
saveEditedStudent(id, student) ==
    /\ allstudents' = updateStudentList(allstudents, id, student)
    /\ filteredstudents' = updateStudentList(filteredstudents, id, student)
    /\ action' = "saveEditedStudent"
    /\ error' = "none"
    /\ UNCHANGED <<currentStudent, searchData, issued>>

\* removal by splice(findIndex(...), 1): an id that is not found gives index
\* -1, and splice(-1, 1) takes the last element out
withoutStudent_splice(students, studentId) ==
    IF \E i \in 1..Len(students) : students[i]._id = studentId
    THEN LET keep(student) == student._id # studentId
         IN  SelectSeq(students, keep)
    ELSE SubSeq(students, 1, Len(students) - 1)

\* students.filter((student) => student._id !== studentId)
withoutStudent(students, studentId) ==
    LET keep(student) == student._id # studentId
    IN  SelectSeq(students, keep)

\* deleteStudent filtering allstudents only
deleteStudent_allOnly(studentId) ==
    /\ allstudents' = withoutStudent(allstudents, studentId)
    /\ action' = "deleteStudent"
    /\ error' = "none"
    /\ UNCHANGED <<filteredstudents, currentStudent, searchData, issued>>

\* deleteStudent clearing the selection when the selected record is removed
deleteStudent_clearsSelected(studentId) ==
    /\ allstudents' = withoutStudent(allstudents, studentId)
    /\ filteredstudents' = withoutStudent(filteredstudents, studentId)
    /\ currentStudent' =
          IF currentStudent # null /\ currentStudent._id = studentId
          THEN null
          ELSE currentStudent
    /\ action' = "deleteStudent"
    /\ error' = "none"
    /\ UNCHANGED <<searchData, issued>>

\* deleteStudent reducer
deleteStudent(studentId) ==
    /\ allstudents' = withoutStudent(allstudents, studentId)
    /\ filteredstudents' = withoutStudent(filteredstudents, studentId)
    /\ action' = "deleteStudent"
    /\ error' = "none"
    /\ UNCHANGED <<currentStudent, searchData, issued>>

(* --------------------------- specification ---------------------------- *)

\* the slice's initialState, and every component state as first rendered
InitState ==
    /\ allstudents = dummyData
    /\ filteredstudents = dummyData
    /\ currentStudent = null
    /\ searchData = <<>>
    /\ action = "@@INIT"
    /\ error = "none"
    /\ issued = IdsOf(dummyData)
    /\ editData = NoId
    /\ editFormOpen = FALSE
    /\ addFormOpen = FALSE
    /\ openDeleteModal = FALSE
    /\ deleteStudentId = NoId
    /\ detail = FALSE

Init ==
    /\ InitState
    /\ pendingEffects = {}

Search == (\E term \in Terms : searchStudents(term)) /\ UNCHANGED uiVars

Select ==
    (\E studentId \in Ids : selectedStudent(studentId)) /\ UNCHANGED uiVars

ClearSelection == clearSelectedStudent /\ UNCHANGED uiVars

Add == (\E payload \in Payloads : addNewStudent(payload)) /\ UNCHANGED uiVars

Edit ==
    /\ \E id \in Ids, student \in Payloads : saveEditedStudent(id, student)
    /\ UNCHANGED uiVars

Remove ==
    (\E studentId \in Ids : deleteStudent(studentId)) /\ UNCHANGED uiVars

Next == Search \/ Select \/ ClearSelection \/ Add \/ Edit \/ Remove

Spec == Init /\ [][Next]_vars

(* ------------------ payloads that carry an _id of their own ------------ *)

\* Students declares _id as one more optional property, so a payload of the
\* type may carry one: the payloads above, and a firstName-only and a
\* complete one with each id
StudentsPayloads ==
    Payloads \cup
    { Spread([_id |-> id], [firstName |-> <<"C">>]) : id \in Ids } \cup
    { Spread([_id |-> id],
             [firstName |-> <<"A", "b">>, lastName |-> <<"C">>,
              collegeName |-> <<"C">>]) : id \in Ids }

AddStudents ==
    (\E payload \in StudentsPayloads : addNewStudent(payload))
    /\ UNCHANGED uiVars

EditStudents ==
    /\ \E id \in Ids, student \in StudentsPayloads :
          saveEditedStudent(id, student)
    /\ UNCHANGED uiVars

NextStudents ==
    Search \/ Select \/ ClearSelection \/ AddStudents \/ EditStudents \/ Remove

\* the store on its own, dispatched payloads of the whole Students type
SpecStudents == Init /\ [][NextStudents]_vars

(* ------------------- StudentTable and its FormModels ------------------- *)

\* React runs the effects of a render before it handles the next event
Idle == pendingEffects = {}

\* what submitHandler lets through: every validated field is a non-empty
\* string
FormPayloads ==
    {p \in Payloads :
        DOMAIN p = SearchFieldSet /\ \A f \in DOMAIN p : p[f] # <<>>}

\* StudentTable's effect on [studentsData] without the dispatch
StudentsDataEffect_noClear ==
    /\ "studentsData" \in pendingEffects
    /\ pendingEffects' = pendingEffects \ {"studentsData"}
    /\ UNCHANGED <<allstudents, filteredstudents, currentStudent, searchData,
                   action, error, issued, editData, editFormOpen, addFormOpen,
                   openDeleteModal, deleteStudentId,
                   detail>>

\* StudentTable's effect on [studentsData]: it runs on mount and whenever
\* the selector returns another filteredstudents array
StudentsDataEffect ==
    /\ "studentsData" \in pendingEffects
    /\ clearSelectedStudent
    /\ pendingEffects' = pendingEffects \ {"studentsData"}
    /\ UNCHANGED <<editData, editFormOpen, addFormOpen, openDeleteModal,
                   deleteStudentId,
                   detail>>

\* the effect on [searchData] with a selector that reports no change
SearchDataEffect_noChange ==
    /\ "searchData" \in pendingEffects
    /\ "studentsData" \notin pendingEffects
    /\ searchStudents(searchData)
    /\ pendingEffects' = pendingEffects \ {"searchData"}
    /\ UNCHANGED <<editData, editFormOpen, addFormOpen, openDeleteModal,
                   deleteStudentId,
                   detail>>

\* StudentTable's effect on [searchData], declared after the one on
\* [studentsData] and so run after it; the reducer assigns a new array to
\* filteredstudents unless it throws
SearchDataEffect ==
    /\ "searchData" \in pendingEffects
    /\ "studentsData" \notin pendingEffects
    /\ searchStudents(searchData)
    /\ pendingEffects' =
          (pendingEffects \ {"searchData"}) \cup
          (IF error' = "none" THEN {"studentsData"} ELSE {})
    /\ UNCHANGED <<editData, editFormOpen, addFormOpen, openDeleteModal,
                   deleteStudentId,
                   detail>>

\* onChange of the search box (and its clear button): setSearchData
SetSearchData(term) ==
    /\ Idle
    /\ term # searchData
    /\ searchData' = term
    /\ pendingEffects' = {"searchData"}
    /\ UNCHANGED <<allstudents, filteredstudents, currentStudent, action,
                   error, issued, editData, editFormOpen, addFormOpen,
                   openDeleteModal, deleteStudentId,
                   detail>>

\* handleEditClick on a row of the grid; a FormModel is mounted when
\* editData was null, an already mounted one only gets the new id prop
\* (StudentTable passes no detail; handleClose keeps the detail it was
\* created with)
handleEditClick(id) ==
    /\ Idle
    /\ id \in IdsOf(filteredstudents)
    /\ editData' = id
    /\ detail' = IF editData = NoId THEN FALSE ELSE detail
    /\ pendingEffects' = IF editData = NoId THEN {"formMount"} ELSE {}
    /\ UNCHANGED <<allstudents, filteredstudents, currentStudent, searchData,
                   action, error, issued, editFormOpen, addFormOpen,
                   openDeleteModal, deleteStudentId>>

\* the details page of a record (reached by handleRowClick) mounting the
\* FormModel for it with the detail flag; the page stands with the rest of
\* the presentation layer, which clears the selection after a successful
\* edit
handleDetailsEditClick(id) ==
    /\ Idle
    /\ id \in IdsOf(filteredstudents)
    /\ editData = NoId
    /\ editData' = id
    /\ detail' = TRUE
    /\ pendingEffects' = {"formMount"}
    /\ UNCHANGED <<allstudents, filteredstudents, currentStudent, searchData,
                   action, error, issued, editFormOpen, addFormOpen,
                   openDeleteModal, deleteStudentId>>

\* FormModel's mount effect when it has an id
FormMountEffect ==
    /\ "formMount" \in pendingEffects
    /\ selectedStudent(editData)
    /\ editFormOpen' = TRUE
    /\ pendingEffects' = pendingEffects \ {"formMount"}
    /\ UNCHANGED <<editData, addFormOpen, openDeleteModal, deleteStudentId,
                   detail>>

\* submitHandler of the form with an id, validation passed
submitEdit(student) ==
    /\ Idle
    /\ editFormOpen
    /\ saveEditedStudent(editData, student)
    /\ editData' = NoId
    /\ editFormOpen' = FALSE
    /\ pendingEffects' = {"studentsData"}
    /\ UNCHANGED <<addFormOpen, openDeleteModal, deleteStudentId,
                   detail>>

\* handleClose of the form with an id dispatching clearSelectedStudent
\* whatever the detail flag
handleCloseEdit_ignoresDetail ==
    /\ Idle
    /\ editFormOpen
    /\ clearSelectedStudent
    /\ editData' = NoId
    /\ editFormOpen' = FALSE
    /\ UNCHANGED <<addFormOpen, openDeleteModal, deleteStudentId,
                   pendingEffects, detail>>

\* handleClose of the form with an id: clearSelectedStudent is dispatched
\* unless the form has the detail flag
handleCloseEdit ==
    /\ Idle
    /\ editFormOpen
    /\ IF ~detail
       THEN clearSelectedStudent
       ELSE UNCHANGED <<allstudents, filteredstudents, currentStudent,
                        searchData, action, error, issued>>
    /\ editData' = NoId
    /\ editFormOpen' = FALSE
    /\ UNCHANGED <<addFormOpen, openDeleteModal, deleteStudentId,
                   pendingEffects, detail>>

\* handleOpen of the form without id (the Add Student button)
handleOpen ==
    /\ Idle
    /\ ~addFormOpen
    /\ addFormOpen' = TRUE
    /\ UNCHANGED <<allstudents, filteredstudents, currentStudent, searchData,
                   action, error, issued, editData, editFormOpen,
                   openDeleteModal, deleteStudentId, pendingEffects,
                   detail>>

\* submitHandler of the form without id, validation passed
submitAdd(student) ==
    /\ Idle
    /\ addFormOpen
    /\ addNewStudent(student)
    /\ addFormOpen' = FALSE
    /\ pendingEffects' = {"studentsData"}
    /\ UNCHANGED <<editData, editFormOpen, openDeleteModal, deleteStudentId,
                   detail>>

\* handleClose of the form without id
handleCloseAdd ==
    /\ Idle
    /\ addFormOpen
    /\ clearSelectedStudent
    /\ addFormOpen' = FALSE
    /\ UNCHANGED <<editData, editFormOpen, openDeleteModal, deleteStudentId,
                   pendingEffects,
                   detail>>

\* handleDeleteClick on a row of the grid
handleDeleteClick(id) ==
    /\ Idle
    /\ id \in IdsOf(filteredstudents)
    /\ deleteStudentId' = id
    /\ openDeleteModal' = TRUE
    /\ UNCHANGED <<allstudents, filteredstudents, currentStudent, searchData,
                   action, error, issued, editData, editFormOpen, addFormOpen,
                   pendingEffects,
                   detail>>

\* handleDeleteConfirm
handleDeleteConfirm ==
    /\ Idle
    /\ openDeleteModal
    /\ deleteStudent(deleteStudentId)
    /\ openDeleteModal' = FALSE
    /\ pendingEffects' = {"studentsData"}
    /\ UNCHANGED <<editData, editFormOpen, addFormOpen, deleteStudentId,
                   detail>>

\* handleDeleteCancel
handleDeleteCancel ==
    /\ Idle
    /\ openDeleteModal
    /\ openDeleteModal' = FALSE
    /\ UNCHANGED <<allstudents, filteredstudents, currentStudent, searchData,
                   action, error, issued, editData, editFormOpen, addFormOpen,
                   deleteStudentId, pendingEffects,
                   detail>>

\* StudentTable as first rendered: both of its effects are due
InitUI ==
    /\ InitState
    /\ pendingEffects = {"studentsData", "searchData"}

TypeSearch == \E term \in Terms : SetSearchData(term)

ClickEdit == \E id \in Ids : handleEditClick(id)

ClickDetailsEdit == \E id \in Ids : handleDetailsEditClick(id)

SubmitEdit == \E student \in FormPayloads : submitEdit(student)

SubmitAdd == \E student \in FormPayloads : submitAdd(student)

ClickDelete == \E id \in Ids : handleDeleteClick(id)

NextUI ==
    \/ StudentsDataEffect \/ SearchDataEffect \/ FormMountEffect
    \/ TypeSearch
    \/ ClickEdit \/ ClickDetailsEdit \/ SubmitEdit \/ handleCloseEdit
    \/ handleOpen \/ SubmitAdd \/ handleCloseAdd
    \/ ClickDelete \/ handleDeleteConfirm \/ handleDeleteCancel

\* React always runs the effects that are due
SpecUI ==
    /\ InitUI
    /\ [][NextUI]_vars
    /\ WF_vars(StudentsDataEffect)
    /\ WF_vars(SearchDataEffect)
    /\ WF_vars(FormMountEffect)

(* ------------------- the specification's vocabulary ------------------- *)

\* a field read the way the specification asks: missing means empty string
fieldOrEmpty(student, f) == IF f \in DOMAIN student THEN student[f] ELSE <<>>

\* the specification's matching rule: some search field contains the term,
\* case-insensitively
Matches(student, term) ==
    \E f \in SearchFieldSet :
        includes(toLowerCase(fieldOrEmpty(student, f)), toLowerCase(term))

\* the records of a list that match the term, in order
MatchingOf(students, term) ==
    LET keep(student) == Matches(student, term)
    IN  SelectSeq(students, keep)

\* the records of a list, as a set
RecordsOf(students) == {students[i] : i \in 1..Len(students)}

\* s is an order-preserving subsequence of t
RECURSIVE IsSubsequence(_, _)
IsSubsequence(s, t) ==
    IF s = <<>> THEN TRUE
    ELSE IF t = <<>> THEN FALSE
    ELSE IF Head(s) = Head(t) THEN IsSubsequence(Tail(s), Tail(t))
    ELSE IsSubsequence(s, Tail(t))

\* the ids of a list, in list order
IdSeq(students) == [i \in 1..Len(students) |-> students[i]._id]

\* the add, edit and remove actions
CrudTypes == {"addNewStudent", "saveEditedStudent", "deleteStudent"}

\* no two positions of the list carry the same id
DistinctIds(students) ==
    \A i, j \in 1..Len(students) : students[i]._id = students[j]._id => i = j

(* ------------------------------- claims ------------------------------- *)

\* C1: filter correctness as an invariant: filtered holds exactly the
\* records of all that match the most recently searched term, in order (so
\* with an empty term filtered equals all).
C1_FilterCorrectness ==
    filteredstudents = MatchingOf(allstudents, searchData)

\* C2: search never fails on a missing field: a search completes without
\* raising and leaves filtered holding the records that match when a
\* missing field is read as the empty string.
C2_SearchNeverRaises ==
    action = "searchStudents" =>
        /\ error = "none"
        /\ filteredstudents = MatchingOf(allstudents, searchData)

\* C3: add under an active search term: add appends the new record to the
\* end of all, and to filtered if and only if it matches the current search
\* term; when it does not match, filtered is unchanged.
C3_AddUnderSearch ==
    [][action' = "addNewStudent" =>
          \A payload \in Payloads :
              addNewStudent(payload) =>
                  LET new == allstudents'[Len(allstudents')]
                  IN  /\ allstudents' = Append(allstudents, new)
                      /\ filteredstudents' =
                            IF Matches(new, searchData)
                            THEN Append(filteredstudents, new)
                            ELSE filteredstudents]_vars

\* C4: edit under an active search term: after an edit of an existing
\* record the edited record is in filtered if and only if it now matches
\* the current search term.
C4_EditUnderSearch ==
    [][action' = "saveEditedStudent" =>
          \A id \in IdsOf(allstudents), student \in Payloads :
              saveEditedStudent(id, student) =>
                  (id \in IdsOf(filteredstudents') <=>
                      \E r \in RecordsOf(allstudents') :
                          r._id = id /\ Matches(r, searchData))]_vars

\* C5: edit replace semantics: after edit(id, input) on an existing id the
\* record with that id in all has exactly the fields _id plus those of
\* input, with input's values, and a select(id) that follows the edit
\* yields that record.
C5_EditReplaces ==
    [][/\ action' = "saveEditedStudent" =>
             \A id \in IdsOf(allstudents), student \in Payloads :
                 saveEditedStudent(id, student) =>
                     /\ id \in IdsOf(allstudents')
                     /\ \A r \in RecordsOf(allstudents') :
                            r._id = id =>
                                /\ DOMAIN r = {"_id"} \cup DOMAIN student
                                /\ \A f \in DOMAIN student : r[f] = student[f]
       /\ (action = "saveEditedStudent" /\ action' = "selectedStudent") =>
             \A id \in IdsOf(allstudents) :
                 selectedStudent(id) =>
                     /\ currentStudent' \in RecordsOf(allstudents)
                     /\ currentStudent'._id = id]_vars

\* a seed record that an edit cut down to _id and firstName, then selected
C5_Witness ==
    /\ action = "selectedStudent"
    /\ currentStudent # null
    /\ currentStudent \in RecordsOf(allstudents)
    /\ currentStudent._id = dummyData[1]._id
    /\ DOMAIN currentStudent = {"_id", "firstName"}

\* C6: id uniqueness without reuse: the ids in all are pairwise distinct in
\* every state, and an id that enters all was never in use before (issued
\* holds every id that has ever been in all).
C6_UniqueIdsNoReuse ==
    [][/\ DistinctIds(allstudents) /\ DistinctIds(allstudents')
       /\ IdsOf(allstudents) \subseteq issued
       /\ issued \subseteq issued'
       /\ IdsOf(allstudents') \subseteq issued'
       /\ \A id \in IdsOf(allstudents') \ IdsOf(allstudents) :
             id \notin issued]_vars

\* an add after some earlier id has been removed
C6_Witness ==
    /\ action = "addNewStudent"
    /\ IdsOf(allstudents) # issued

\* C7: subsequence invariant: filtered is an order-preserving subsequence
\* of all in every reachable state.
C7_SubsequenceInvariant == IsSubsequence(filteredstudents, allstudents)

\* after an add, two records in all and both, in order, in filtered
C7_Witness ==
    /\ action = "addNewStudent"
    /\ Len(allstudents) = 2
    /\ filteredstudents = allstudents

\* C8: no drift between the two views: every record of filtered has a
\* record with the same id in all, and its content equals the content of
\* every record of all with that id.
C8_NoDrift ==
    \A r \in RecordsOf(filteredstudents) :
        /\ r._id \in IdsOf(allstudents)
        /\ \A a \in RecordsOf(allstudents) : a._id = r._id => a = r

\* after an edit, the edited seed record as the edit left it, in both views
C8_Witness ==
    /\ action = "saveEditedStudent"
    /\ \E r \in RecordsOf(filteredstudents) :
          /\ r._id = dummyData[1]._id
          /\ r # dummyData[1]
          /\ r \in RecordsOf(allstudents)

\* C9: selected tracks the underlying record: whenever selected is present
\* it equals the current content of the record of all with the same id.
C9_SelectedTracksRecord ==
    currentStudent # null =>
        \E a \in RecordsOf(allstudents) :
            a._id = currentStudent._id /\ a = currentStudent

\* C10: select(id) sets selected to the record of all with that id when
\* there is one and to null when there is none, raises nothing and leaves
\* all and filtered unchanged.
C10_SelectSets ==
    [][action' = "selectedStudent" =>
          \A studentId \in Ids :
              selectedStudent(studentId) =>
                  /\ studentId \in IdsOf(allstudents) =>
                         /\ currentStudent' \in RecordsOf(allstudents)
                         /\ currentStudent'._id = studentId
                  /\ studentId \notin IdsOf(allstudents) =>
                         currentStudent' = null
                  /\ error' = "none"
                  /\ allstudents' = allstudents
                  /\ filteredstudents' = filteredstudents]_vars

\* a select of a record that is in all but not in the filtered view
C10_Witness ==
    /\ action = "selectedStudent"
    /\ currentStudent # null
    /\ currentStudent \in RecordsOf(allstudents)
    /\ currentStudent._id \notin IdsOf(filteredstudents)

\* C11: remove(id) deletes the record with that id from all and from
\* filtered and changes nothing else: the other records stay, with their
\* content and order, in both views, and selected stays; with no record of
\* that id both views are unchanged.
C11_RemoveFrame ==
    [][action' = "deleteStudent" =>
          \A id \in Ids :
              deleteStudent(id) =>
                  /\ RecordsOf(allstudents') =
                        {r \in RecordsOf(allstudents) : r._id # id}
                  /\ RecordsOf(filteredstudents') =
                        {r \in RecordsOf(filteredstudents) : r._id # id}
                  /\ IsSubsequence(allstudents', allstudents)
                  /\ IsSubsequence(filteredstudents', filteredstudents)
                  /\ currentStudent' = currentStudent
                  /\ id \notin IdsOf(allstudents) =>
                         /\ allstudents' = allstudents
                         /\ filteredstudents' = filteredstudents]_vars

\* after a remove, the seed record is gone and an added record is left, in
\* both views
C11_Witness ==
    /\ action = "deleteStudent"
    /\ Len(allstudents) = 1
    /\ allstudents[1]._id # dummyData[1]._id
    /\ filteredstudents = allstudents

\* C12: idempotent removal: from every reachable state and for every id,
\* removing the id from both views twice gives the views that removing it
\* once gives.
C12_IdempotentRemoval ==
    \A id \in Ids :
        /\ withoutStudent(withoutStudent(allstudents, id), id) =
              withoutStudent(allstudents, id)
        /\ withoutStudent(withoutStudent(filteredstudents, id), id) =
              withoutStudent(filteredstudents, id)

\* the state a remove left, with a record remaining that a second remove
\* of the same id must not touch
C12_Witness ==
    /\ action = "deleteStudent"
    /\ IdsOf(allstudents) # issued
    /\ Len(allstudents) >= 1
    /\ Len(filteredstudents) >= 1

\* C13: edit of a nonexistent id is a no-op: for an id that is not in all,
\* edit leaves all, filtered and selected unchanged and raises nothing.
C13_EditAbsentNoOp ==
    [][action' = "saveEditedStudent" =>
          \A id \in Ids \ IdsOf(allstudents), student \in Payloads :
              saveEditedStudent(id, student) =>
                  /\ allstudents' = allstudents
                  /\ filteredstudents' = filteredstudents
                  /\ currentStudent' = currentStudent
                  /\ error' = "none"]_vars

\* an edit dispatched on an empty all: whatever its id, no record had it
C13_Witness ==
    /\ action = "saveEditedStudent"
    /\ allstudents = <<>>
    /\ filteredstudents = <<>>

\* C14: the store does not touch selected on CRUD: add, edit and remove
\* leave selected as it was, also when the selected record is the one
\* edited or removed.
C14_CrudKeepsSelected ==
    [][action' \in CrudTypes => currentStudent' = currentStudent]_vars

\* after a remove, selected still holds the record that is gone from all
C14_Witness ==
    /\ action = "deleteStudent"
    /\ currentStudent # null
    /\ currentStudent._id \notin IdsOf(allstudents)

\* C15: id immutability: edit keeps the id at every position of all;
\* search, select and clearSelection leave all alone; add brings exactly
\* one id that was not there; remove takes at most one id away and brings
\* none.
C15_IdImmutable ==
    [][/\ action' = "saveEditedStudent" =>
             IdSeq(allstudents') = IdSeq(allstudents)
       /\ action' \in {"searchStudents", "selectedStudent",
                       "clearSelectedStudent"} =>
             allstudents' = allstudents
       /\ action' = "addNewStudent" =>
             /\ IdsOf(allstudents) \subseteq IdsOf(allstudents')
             /\ Cardinality(IdsOf(allstudents') \ IdsOf(allstudents)) = 1
       /\ action' = "deleteStudent" =>
             /\ IdsOf(allstudents') \subseteq IdsOf(allstudents)
             /\ Cardinality(IdsOf(allstudents) \ IdsOf(allstudents')) <= 1
      ]_vars

\* after an edit, the edited seed record is still first of two
C15_Witness ==
    /\ action = "saveEditedStudent"
    /\ Len(allstudents) = 2
    /\ allstudents[1]._id = dummyData[1]._id
    /\ allstudents[1] # dummyData[1]

\* C16: order of all is creation order: add leaves the existing records
\* where they were and puts the new one after them; no other operation
\* changes the relative order of the records that remain.
C16_CreationOrder ==
    [][/\ action' = "addNewStudent" =>
             /\ Len(allstudents') = Len(allstudents) + 1
             /\ SubSeq(allstudents', 1, Len(allstudents)) = allstudents
       /\ action' # "addNewStudent" =>
             IsSubsequence(IdSeq(allstudents'), IdSeq(allstudents))
      ]_vars

\* after an add, the seed record first and the new record second
C16_Witness ==
    /\ action = "addNewStudent"
    /\ Len(allstudents) = 2
    /\ allstudents[1]._id = dummyData[1]._id

\* C17: search has no effect other than on filtered: it leaves all and
\* selected unchanged, for every term.
C17_SearchFrame ==
    [][action' = "searchStudents" =>
          \A term \in Terms :
              searchStudents(term) =>
                  /\ allstudents' = allstudents
                  /\ currentStudent' = currentStudent]_vars

\* after a search that narrowed the view, all and the selection still there
C17_Witness ==
    /\ action = "searchStudents"
    /\ error = "none"
    /\ Len(filteredstudents) < Len(allstudents)
    /\ currentStudent # null

\* C20: search depends only on all and the term: the filtered that
\* search(t) leaves equals the records of all that match t, in order,
\* whatever filtered was before.
C20_SearchFunctionOfAll ==
    [][action' = "searchStudents" =>
          \A term \in Terms :
              searchStudents(term) =>
                  filteredstudents' = MatchingOf(allstudents, term)]_vars

\* C21: the payload cannot override the id: for every payload of the
\* Students type, one that carries an _id included, the record add stores
\* (the last of all) has the id uuidv4 has just returned, and every record
\* edit(id, student) stores in place of one with that id has the id id.
C21_PayloadCannotOverrideId ==
    [][/\ action' = "addNewStudent" =>
             \A payload \in StudentsPayloads :
                 addNewStudent(payload) =>
                     {allstudents'[Len(allstudents')]._id} = issued' \ issued
       /\ action' = "saveEditedStudent" =>
             \A id \in Ids, student \in StudentsPayloads :
                 saveEditedStudent(id, student) =>
                     \A i \in 1..Len(allstudents) :
                         allstudents[i]._id = id => allstudents'[i]._id = id
      ]_vars

\* C18: in the composed system every add, edit or remove dispatched by the
\* forms or the delete dialog is followed by selected being absent: the
\* step after the dispatch is the table's clearSelectedStudent, ahead of
\* any user command, and it does come.
C18_CrudThenCleared ==
    /\ [][(action \in CrudTypes) =>
             (action' = "clearSelectedStudent" /\ currentStudent' = null)]_vars
    /\ (action \in CrudTypes) ~> (currentStudent = null)

\* an edit just submitted from the form: the selection the form made is
\* still there and the table's effect is due
C18_Witness ==
    /\ action = "saveEditedStudent"
    /\ currentStudent # null
    /\ "studentsData" \in pendingEffects

\* C19 as stated: in the composed system the table's effect clears a
\* present selection only after an add, edit or remove, not after a search
\* dispatched because the term changed and not after a select on its own.
C19_ClearedOnlyByCrud ==
    [][(StudentsDataEffect /\ currentStudent # null) =>
          action \in CrudTypes]_vars

\* C19 as amended: the table's effect clears a present selection after an
\* add, edit or remove and also after a search dispatched because the term
\* changed (the step after that search is the clearSelectedStudent); the
\* select a form dispatches on mount does not make the effect due.
C19_ClearedByCrudOrSearch ==
    [][/\ (StudentsDataEffect /\ currentStudent # null) =>
             action \in CrudTypes \cup {"searchStudents"}
       /\ action = "searchStudents" =>
             (action' = "clearSelectedStudent" /\ currentStudent' = null)
       /\ FormMountEffect => "studentsData" \notin pendingEffects']_vars

\* a search dispatched because the term changed while a record is
\* selected: the table's effect is due
C19_Witness ==
    /\ action = "searchStudents"
    /\ currentStudent # null
    /\ "studentsData" \in pendingEffects

====
